---- MODULE Spec2Model ----
(***************************************************************************)
(* Model of gptme/util.py: the session-name generator and recognizer, the  *)
(* relative-age formatter and the transcript-to-directive transformer.     *)
(* Every function of the file is pure; a state of the model is one call    *)
(* (the function, its arguments, its result), and the caller returns to    *)
(* idle between calls.  Strings that the code indexes, splits or matches   *)
(* are sequences of one-character strings.                                 *)
(***************************************************************************)
EXTENDS Integers, Sequences, FiniteSets, TLC

VARIABLES
  pc,          \* "idle" | "called"
  op,          \* the function of the last call, "none" when idle
  segs,        \* the segments the name argument was put together from
  name,        \* generate_name's result / is_generated_name's argument
  recognized,  \* is_generated_name's result
  now,         \* datetime.now() of the epoch_to_age call, whole seconds
  epoch,       \* epoch_to_age's argument
  age,         \* the timedelta now - fromtimestamp(epoch)
  ageText,     \* epoch_to_age's result
  lines,       \* the lines the transcript argument was put together from
  strict,      \* transform_examples_to_chat_directives' strict argument
  text,        \* its argument s
  result,      \* its outcome: [status, stage, out]
  first        \* the output of the previous application, when text is one

vars == <<pc, op, segs, name, recognized, now, epoch, age, ageText,
          lines, strict, text, result, first>>

nameVars == <<segs, name, recognized>>
ageVars == <<now, epoch, age, ageText>>
transformVars == <<lines, strict, text, result, first>>

----------------------------------------------------------------------------
(* Bounds of the model *)

\* longest argument of is_generated_name, in segments
MaxSegs == 4
\* largest |now - epoch| of an epoch_to_age call, in seconds
MaxAge == 260000
\* the wall-clock instant of the epoch_to_age calls, seconds since the epoch
NowEpoch == 1700000000
\* longest transcript, in lines
MaxLines == 3

----------------------------------------------------------------------------
(* The vocabularies (util.py 31-94) *)

actions ==
  << <<"r","u","n","n","i","n","g">>,
     <<"j","u","m","p","i","n","g">>,
     <<"w","a","l","k","i","n","g">>,
     <<"s","k","i","p","p","i","n","g">>,
     <<"h","o","p","p","i","n","g">>,
     <<"f","l","y","i","n","g">>,
     <<"s","w","i","m","m","i","n","g">>,
     <<"c","r","a","w","l","i","n","g">>,
     <<"s","n","e","a","k","i","n","g">>,
     <<"s","p","r","i","n","t","i","n","g">>,
     <<"s","n","e","a","k","i","n","g">>,
     <<"d","a","n","c","i","n","g">>,
     <<"s","i","n","g","i","n","g">>,
     <<"l","a","u","g","h","i","n","g">> >>

adjectives ==
  << <<"f","u","n","n","y">>,
     <<"h","a","p","p","y">>,
     <<"s","a","d">>,
     <<"a","n","g","r","y">>,
     <<"s","i","l","l","y">>,
     <<"c","r","a","z","y">>,
     <<"s","n","e","a","k","y">>,
     <<"s","l","e","e","p","y">>,
     <<"h","u","n","g","r","y">>,
     <<"r","e","d">>,
     <<"b","l","u","e">>,
     <<"g","r","e","e","n">>,
     <<"p","i","n","k">>,
     <<"p","u","r","p","l","e">>,
     <<"y","e","l","l","o","w">>,
     <<"o","r","a","n","g","e">> >>

nouns ==
  << <<"c","a","t">>,
     <<"d","o","g">>,
     <<"r","a","t">>,
     <<"m","o","u","s","e">>,
     <<"f","i","s","h">>,
     <<"e","l","e","p","h","a","n","t">>,
     <<"d","i","n","o","s","a","u","r">>,
     <<"b","i","r","d">>,
     <<"p","e","l","i","c","a","n">>,
     <<"d","r","a","g","o","n">>,
     <<"u","n","i","c","o","r","n">>,
     <<"m","e","r","m","a","i","d">>,
     <<"m","o","n","s","t","e","r">>,
     <<"a","l","i","e","n">>,
     <<"r","o","b","o","t">>,
     <<"w","h","a","l","e">>,
     <<"s","h","a","r","k">>,
     <<"w","a","l","r","u","s">>,
     <<"o","c","t","o","p","u","s">>,
     <<"s","q","u","i","d">>,
     <<"j","e","l","l","y","f","i","s","h">>,
     <<"s","t","a","r","f","i","s","h">>,
     <<"p","e","n","g","u","i","n">>,
     <<"s","e","a","l">> >>


----------------------------------------------------------------------------
(* Identifier generator and recognizer (util.py 97-107) *)

Sep == "-"

\* the words joined with the separator missing between the first two
JoinNameSpaced(action, adjective, noun) ==
  action \o <<" ">> \o adjective \o <<Sep>> \o noun

\* f"{action}-{adjective}-{noun}"
JoinName(action, adjective, noun) ==
  action \o <<Sep>> \o adjective \o <<Sep>> \o noun

\* generate_name with random.choice drawing index i, j, k
generate_name(i, j, k) == JoinName(actions[i], adjectives[j], nouns[k])

\* str.count("-")
CountSep(s) == Cardinality({i \in 1..Len(s) : s[i] = Sep})

\* str.split("-"): the pieces between the separators, empty ones included
RECURSIVE SplitFrom(_, _, _)
SplitFrom(s, i, cur) ==
  IF i > Len(s) THEN <<cur>>
  ELSE IF s[i] = Sep THEN <<cur>> \o SplitFrom(s, i + 1, <<>>)
  ELSE SplitFrom(s, i + 1, Append(cur, s[i]))

Split(s) == SplitFrom(s, 1, <<>>)

all_words == actions \o adjectives \o nouns

\* word in all_words
InList(word, list) == \E i \in 1..Len(list) : list[i] = word

\* any() where the code has all()
is_generated_name_any(s) ==
  /\ CountSep(s) = 2
  /\ LET parts == Split(s)
     IN  \E n \in 1..Len(parts) : InList(parts[n], all_words)

is_generated_name(s) ==
  /\ CountSep(s) = 2
  /\ LET parts == Split(s)
     IN  \A n \in 1..Len(parts) : InList(parts[n], all_words)

\* "-".join(pieces), how the callers of is_generated_name spell its argument
RECURSIVE JoinSegs(_)
JoinSegs(pieces) ==
  IF Len(pieces) = 0 THEN <<>>
  ELSE IF Len(pieces) = 1 THEN pieces[1]
  ELSE pieces[1] \o <<Sep>> \o JoinSegs(Tail(pieces))

Range(f) == {f[i] : i \in DOMAIN f}

Vocabulary == Range(actions) \cup Range(adjectives) \cup Range(nouns)

\* segments that are in no vocabulary: empty, wrong case, a prefix of a
\* word, a word with a suffix, and unrelated words
NonWords ==
  { <<>>, <<"C","a","t">>, <<"c","a">>, <<"c","a","t","s">>,
    <<"a">>, <<"b">>, <<"x","y","z">>, <<"u","n","k","n","o","w","n">>,
    <<"w","o","r","d">>, <<" ","c","a","t">> }

\* segments of the arguments longer than three segments
SampleSegs ==
  { <<"c","a","t">>, <<"r","e","d">>, <<"f","l","y","i","n","g">>,
    <<>>, <<"a">>, <<"C","a","t">> }

NameInputs ==
  UNION { [1..n -> Vocabulary \cup NonWords] : n \in 1..3 }
    \cup UNION { [1..n -> SampleSegs] : n \in 4..MaxSegs }

----------------------------------------------------------------------------
(* Age formatter (util.py 110-122) *)

Minute == 60
Hour == 3600
Day == 86400

\* datetime.timedelta, normalized as the library does: 0 <= seconds < 86400
\* and the sign carried by days
TimeDelta(secs) == [days |-> secs \div Day, seconds |-> secs % Day]

\* <= where the code has <
TimeDeltaLessEq(a, b) ==
  \/ a.days < b.days
  \/ a.days = b.days /\ a.seconds <= b.seconds

\* timedelta.__lt__: compares (days, seconds)
TimeDeltaLess(a, b) ==
  \/ a.days < b.days
  \/ a.days = b.days /\ a.seconds < b.seconds

Pad(n, width) ==
  LET s == ToString(n)
  IN  IF width = 4
        THEN (IF n < 10 THEN "000" ELSE IF n < 100 THEN "00"
              ELSE IF n < 1000 THEN "0" ELSE "") \o s
        ELSE (IF n < 10 THEN "0" ELSE "") \o s

\* datetime.fromtimestamp(epoch).strftime('%Y-%m-%d'), the local zone being UTC:
\* the proleptic Gregorian date of day number epoch \div 86400
DateOf(t) ==
  LET z    == (t \div Day) + 719468
      era  == z \div 146097
      doe  == z - era * 146097
      yoe  == (doe - (doe \div 1460) + (doe \div 36524) - (doe \div 146096)) \div 365
      doy  == doe - (365 * yoe + (yoe \div 4) - (yoe \div 100))
      mp   == (5 * doy + 2) \div 153
      d    == doy - ((153 * mp + 2) \div 5) + 1
      m    == IF mp < 10 THEN mp + 3 ELSE mp - 9
      y    == yoe + era * 400 + (IF m <= 2 THEN 1 ELSE 0)
  IN  Pad(y, 4) \o "-" \o Pad(m, 2) \o "-" \o Pad(d, 2)

\* the age taken by magnitude
AgeOfAbs(n, e) == TimeDelta(IF n < e THEN e - n ELSE n - e)

\* seconds kept within the hour instead of within the day
AgeOfHourly(n, e) == [days |-> (n - e) \div Day, seconds |-> (n - e) % Hour]

\* age = datetime.now() - datetime.fromtimestamp(epoch)
AgeOf(n, e) == TimeDelta(n - e)

epoch_to_age(n, e) ==
  LET a == AgeOf(n, e)
  IN  IF TimeDeltaLess(a, TimeDelta(Minute)) THEN "just now"
      ELSE IF TimeDeltaLess(a, TimeDelta(Hour))
        THEN ToString(a.seconds \div 60) \o " minutes ago"
      ELSE IF TimeDeltaLess(a, TimeDelta(Day))
        THEN ToString(a.seconds \div 3600) \o " hours ago"
      ELSE IF TimeDeltaLess(a, TimeDelta(2 * Day)) THEN "yesterday"
      ELSE ToString(a.days) \o " days ago (" \o DateOf(e) \o ")"

----------------------------------------------------------------------------
(* Transcript-to-directive transformer (util.py 145-164) *)

NL == "\n"

\* what \s matches and str.strip removes, among the characters of the model
IsSpace(c) == c = " " \/ c = NL

Min(S) == CHOOSE x \in S : \A y \in S : x <= y
Max(S) == CHOOSE x \in S : \A y \in S : x >= y

\* s has the literal lit at position q
HasAt(s, q, lit) ==
  /\ q >= 1
  /\ q + Len(lit) - 1 <= Len(s)
  /\ SubSeq(s, q, q + Len(lit) - 1) = lit

\* the position of the line break that ends the line starting at q, or
\* Len(s) + 1 on the last line: '.' does not match a line break
LineEnd(s, q) == Min({i \in q..Len(s) : s[i] = NL} \cup {Len(s) + 1})

NoMatch == [ok |-> FALSE, g3 |-> <<>>, end |-> 0]

\* ([>] )?(.+): tried at q, the start of a line.  The optional "> " is tried
\* first; the greedy .+ runs to the end of the line and gives characters
\* back to the last colon that leaves it at least one character.
MatchRole(s, q) ==
  LET e == LineEnd(s, q)
      Colons(a) == {k \in (a + 1)..(e - 1) : s[k] = ":"}
  IN  IF HasAt(s, q, <<">", " ">>) /\ Colons(q + 2) # {}
        THEN [ok |-> TRUE, g3 |-> SubSeq(s, q + 2, Max(Colons(q + 2)) - 1),
              end |-> Max(Colons(q + 2)) + 1]
      ELSE IF Colons(q) # {}
        THEN [ok |-> TRUE, g3 |-> SubSeq(s, q, Max(Colons(q)) - 1),
              end |-> Max(Colons(q)) + 1]
      ELSE NoMatch

UserLabel == <<"U","s","e","r",":">>
Prefix == <<" "," "," ">>
IndentedUser == Prefix \o UserLabel
Opener == <<".","."," ","c","h","a","t",":",":">>

\* (   [# ]+(.+)(\n\s*)+)?   User: tried at q, the start of a line.  The
\* optional heading group is tried first: three spaces, the longest run of
\* '#' and ' ' that leaves (.+) a character, (.+) to the end of the line,
\* then line breaks and spaces up to the three spaces before User:.
MatchAnchor(s, q) ==
  LET e      == LineEnd(s, q)
      runEnd == Min({i \in (q + 3)..(e - 1) : s[i] \notin {"#", " "}} \cup {e})
      a      == Min({runEnd, e - 1})
      w      == Min({i \in e..Len(s) : ~IsSpace(s[i])} \cup {Len(s) + 1})
      heading ==
        /\ HasAt(s, q, Prefix)
        /\ runEnd >= q + 4
        /\ a >= q + 4
        /\ e <= Len(s)
        /\ w - 3 >= e + 1
        /\ HasAt(s, w - 3, IndentedUser)
  IN  IF heading
        THEN [ok |-> TRUE, g3 |-> SubSeq(s, a, e - 1), end |-> w + Len(UserLabel)]
      ELSE IF HasAt(s, q, IndentedUser)
        THEN [ok |-> TRUE, g3 |-> <<>>, end |-> q + Len(IndentedUser)]
      ELSE NoMatch

\* (^|\n) before the rest of a pattern, tried at position p: ^ matches at
\* the start of the string only (no MULTILINE flag) and is tried first, then
\* a line break at p.  atStart and afterNL are what the rest of the pattern
\* matches at 1 and at p + 1; the result carries group 1 in g1.
AtLineStart(s, p, atStart, afterNL) ==
  IF p = 1 /\ atStart.ok THEN atStart @@ [g1 |-> <<>>]
  ELSE IF p <= Len(s) /\ s[p] = NL /\ afterNL.ok THEN afterNL @@ [g1 |-> <<NL>>]
  ELSE NoMatch @@ [g1 |-> <<>>]

\* the template r"\1\3:"
RoleTemplate(m) == m.g1 \o m.g3 \o <<":">>

\* the template with the heading's text left out
DirectiveTemplateNoHeading(m) ==
  m.g1 \o <<NL, NL>> \o Opener \o <<NL, NL>> \o IndentedUser

\* the template r"\1\3\n\n.. chat::\n\n   User:"
DirectiveTemplate(m) ==
  m.g1 \o m.g3 \o <<NL, NL>> \o Opener \o <<NL, NL>> \o IndentedUser

\* re.sub of the first pattern from position p on: every non-overlapping
\* match from left to right is replaced, a position with no match keeps its
\* character
RECURSIVE NormalizeFrom(_, _)
NormalizeFrom(s, p) ==
  IF p > Len(s) THEN <<>>
  ELSE LET m == AtLineStart(s, p, MatchRole(s, 1), MatchRole(s, p + 1))
       IN  IF m.ok THEN RoleTemplate(m) \o NormalizeFrom(s, m.end)
           ELSE <<s[p]>> \o NormalizeFrom(s, p + 1)

\* s = re.sub(r"(^|\n)([>] )?(.+):", r"\1\3:", s)
Normalize(s) == NormalizeFrom(s, 1)

\* re.sub of the second pattern from position p on, likewise
RECURSIVE InsertDirectiveFrom(_, _)
InsertDirectiveFrom(s, p) ==
  IF p > Len(s) THEN <<>>
  ELSE LET m == AtLineStart(s, p, MatchAnchor(s, 1), MatchAnchor(s, p + 1))
       IN  IF m.ok THEN DirectiveTemplate(m) \o InsertDirectiveFrom(s, m.end)
           ELSE <<s[p]>> \o InsertDirectiveFrom(s, p + 1)

\* textwrap.indent(s, "   "): each line that is not all whitespace gets the
\* prefix; the line breaks stay
RECURSIVE IndentFrom(_, _)
IndentFrom(s, q) ==
  IF q > Len(s) THEN <<>>
  ELSE LET e    == LineEnd(s, q)
           stop == IF e > Len(s) THEN Len(s) ELSE e
           line == SubSeq(s, q, stop)
       IN  (IF \E i \in q..stop : ~IsSpace(s[i]) THEN Prefix \o line ELSE line)
             \o IndentFrom(s, stop + 1)

Indent(s) == IndentFrom(s, 1)

\* s = re.sub(r"(^|\n)(   [# ]+(.+)(\n\s*)+)?   User:", ..., s)
InsertDirective(s) == InsertDirectiveFrom(s, 1)

\* the two assertion messages
NoMessageFound == "Couldn't find a message"
NoDirectivePlacementFound == "Couldn't find place to put start of directive"

Failure(msg, at) == [status |-> msg, stage |-> at, out |-> <<>>]

\* the function with its first assertion left out
transform_one_assert(s, isStrict) ==
  LET indented == Indent(Normalize(s))
      directed == InsertDirective(indented)
  IN  IF isStrict /\ directed = indented
        THEN Failure(NoDirectivePlacementFound, "insert")
      ELSE [status |-> "ok", stage |-> "return", out |-> directed]

transform_examples_to_chat_directives(s, isStrict) ==
  LET normalized == Normalize(s)
      indented   == Indent(normalized)
      directed   == InsertDirective(indented)
  IN  IF isStrict /\ normalized = s THEN Failure(NoMessageFound, "normalize")
      ELSE IF isStrict /\ directed = indented
        THEN Failure(NoDirectivePlacementFound, "insert")
      ELSE [status |-> "ok", stage |-> "return", out |-> directed]

\* "\n".join(lines), how a transcript is written
RECURSIVE JoinLines(_)
JoinLines(ls) ==
  IF Len(ls) = 0 THEN <<>>
  ELSE IF Len(ls) = 1 THEN ls[1]
  ELSE ls[1] \o <<NL>> \o JoinLines(Tail(ls))

UserTurn == <<"U","s","e","r",":"," ","a">>
QuotedUserTurn == <<">"," ">> \o UserTurn
SpacedUserTurn == <<" ">> \o UserTurn
AssistantTurn == <<"A","s","s","i","s","t","a","n","t",":"," ","h","i">>
QuotedAssistantTurn == <<">"," ">> \o AssistantTurn
HeadingLine == <<"#"," ","H">>
MarkerOnlyLine == <<"#","#">>
SpacedLine == <<" ","n","o","t","e">>
PlainLine == <<"n","o"," ","c","o","l","o","n","s"," ","h","e","r","e">>
QuotedPlainLine == <<">"," ","h","i">>
BareColonLine == <<":">>
BlankLine == <<>>

\* the lines a transcript is made of
TranscriptLines ==
  { UserTurn, QuotedUserTurn, SpacedUserTurn, AssistantTurn,
    QuotedAssistantTurn, HeadingLine, MarkerOnlyLine, SpacedLine,
    PlainLine, QuotedPlainLine, BareColonLine, BlankLine }

TranscriptInputs == UNION { [1..n -> TranscriptLines] : n \in 1..MaxLines }

----------------------------------------------------------------------------
(* The calls *)

NoResult == [status |-> "none", stage |-> "none", out |-> <<>>]
NoAge == [days |-> 0, seconds |-> 0]

Init ==
  /\ pc = "idle" /\ op = "none"
  /\ segs = <<>> /\ name = <<>> /\ recognized = FALSE
  /\ now = 0 /\ epoch = 0 /\ age = NoAge /\ ageText = ""
  /\ lines = <<>> /\ strict = FALSE /\ text = <<>>
  /\ result = NoResult /\ first = <<>>

\* name = generate_name()
GenerateName ==
  /\ pc = "idle"
  /\ \E i \in 1..Len(actions), j \in 1..Len(adjectives), k \in 1..Len(nouns) :
       /\ segs' = <<actions[i], adjectives[j], nouns[k]>>
       /\ name' = generate_name(i, j, k)
  /\ pc' = "called" /\ op' = "generate_name"
  /\ UNCHANGED <<recognized, ageVars, transformVars>>

\* is_generated_name(name) on the name generate_name has just returned
RecognizeGenerated ==
  /\ pc = "called" /\ op = "generate_name"
  /\ recognized' = is_generated_name(name)
  /\ op' = "recognize_generated"
  /\ UNCHANGED <<pc, segs, name, ageVars, transformVars>>

\* is_generated_name(name) on a name a caller supplies
IsGeneratedName ==
  /\ pc = "idle"
  /\ \E pieces \in NameInputs :
       /\ segs' = pieces
       /\ name' = JoinSegs(pieces)
       /\ recognized' = is_generated_name(JoinSegs(pieces))
  /\ pc' = "called" /\ op' = "is_generated_name"
  /\ UNCHANGED <<ageVars, transformVars>>

\* epoch_to_age(epoch), the clock reading NowEpoch
EpochToAge ==
  /\ pc = "idle"
  /\ \E a \in (-MaxAge)..MaxAge :
       /\ now' = NowEpoch
       /\ epoch' = NowEpoch - a
       /\ age' = AgeOf(NowEpoch, NowEpoch - a)
       /\ ageText' = epoch_to_age(NowEpoch, NowEpoch - a)
  /\ pc' = "called" /\ op' = "epoch_to_age"
  /\ UNCHANGED <<nameVars, transformVars>>

\* the call returns; no call leaves anything behind
Return ==
  /\ pc = "called"
  /\ pc' = "idle" /\ op' = "none"
  /\ segs' = <<>> /\ name' = <<>> /\ recognized' = FALSE
  /\ now' = 0 /\ epoch' = 0 /\ age' = NoAge /\ ageText' = ""
  /\ lines' = <<>> /\ strict' = FALSE /\ text' = <<>>
  /\ result' = NoResult /\ first' = <<>>

NextName == GenerateName \/ RecognizeGenerated \/ IsGeneratedName \/ Return
SpecName == Init /\ [][NextName]_vars

NextAge == EpochToAge \/ Return
SpecAge == Init /\ [][NextAge]_vars

\* transform_examples_to_chat_directives(text, strict)
Transform ==
  /\ pc = "idle"
  /\ \E ls \in TranscriptInputs, b \in BOOLEAN :
       /\ lines' = ls
       /\ strict' = b
       /\ text' = JoinLines(ls)
       /\ result' = transform_examples_to_chat_directives(JoinLines(ls), b)
  /\ first' = <<>>
  /\ pc' = "called" /\ op' = "transform"
  /\ UNCHANGED <<nameVars, ageVars>>

\* the non-strict output handed to the function once more
TransformAgain ==
  /\ pc = "called" /\ op = "transform"
  /\ strict = FALSE /\ result.status = "ok"
  /\ first' = result.out
  /\ text' = result.out
  /\ result' = transform_examples_to_chat_directives(result.out, FALSE)
  /\ op' = "transform_again"
  /\ UNCHANGED <<pc, lines, strict, nameVars, ageVars>>

NextTransform == Transform \/ TransformAgain \/ Return
SpecTransform == Init /\ [][NextTransform]_vars

\* any caller of the module
Next ==
  \/ GenerateName \/ RecognizeGenerated \/ IsGeneratedName
  \/ EpochToAge
  \/ Transform \/ TransformAgain
  \/ Return
Spec == Init /\ [][Next]_vars

----------------------------------------------------------------------------
(* Properties of the identifier component *)

FlyingRedCat ==
  <<"f","l","y","i","n","g","-","r","e","d","-","c","a","t">>

\* C1: every name generate_name can return is the three chosen words joined
\* by '-' in the order action, adjective, noun, and is_generated_name
\* accepts it.
C1_RoundTrip ==
  op = "recognize_generated" =>
    /\ Len(segs) = 3
    /\ InList(segs[1], actions) /\ InList(segs[2], adjectives)
    /\ InList(segs[3], nouns)
    /\ name = JoinSegs(segs)
    /\ recognized = TRUE

C1_Witness ==
  /\ op = "recognize_generated"
  /\ name = FlyingRedCat
  /\ recognized = TRUE

\* C2: is_generated_name(name) is true exactly when name has two separators
\* (three segments) and each segment is a word of some vocabulary, whatever
\* its position.
C2_Recognize ==
  op = "is_generated_name" =>
    /\ CountSep(name) = Len(segs) - 1
    /\ recognized = (Len(segs) = 3 /\ \A n \in 1..3 : segs[n] \in Vocabulary)

\* a noun, an action and an adjective, in that order, are accepted
C2_Witness ==
  /\ op = "is_generated_name"
  /\ segs = << <<"c","a","t">>, <<"f","l","y","i","n","g">>, <<"r","e","d">> >>
  /\ recognized = TRUE

----------------------------------------------------------------------------
(* Properties of the age formatter *)

Elapsed == now - epoch

\* the bucket table of the documentation, on an age of m whole seconds
BucketText(m, e) ==
  IF m < 60 THEN "just now"
  ELSE IF m < 3600 THEN ToString(m \div 60) \o " minutes ago"
  ELSE IF m < 86400 THEN ToString(m \div 3600) \o " hours ago"
  ELSE IF m < 172800 THEN "yesterday"
  ELSE ToString(m \div 86400) \o " days ago (" \o DateOf(e) \o ")"

\* C7: a non-negative age falls in the first bucket that matches, each
\* boundary value in the later bucket, and the documented examples hold.
C7_Buckets ==
  (op = "epoch_to_age" /\ Elapsed >= 0) =>
    /\ ageText = BucketText(Elapsed, epoch)
    /\ Elapsed = 30 => ageText = "just now"
    /\ Elapsed = 60 => ageText = "1 minutes ago"
    /\ Elapsed = 90 => ageText = "1 minutes ago"
    /\ Elapsed = 3600 => ageText = "1 hours ago"
    /\ Elapsed = 3700 => ageText = "1 hours ago"
    /\ Elapsed = 86400 => ageText = "yesterday"
    /\ Elapsed = 90000 => ageText = "yesterday"
    /\ Elapsed = 172800 => ageText = "2 days ago (" \o DateOf(epoch) \o ")"
    /\ Elapsed = 200000 => ageText = "2 days ago (" \o DateOf(epoch) \o ")"

C7_Witness ==
  /\ op = "epoch_to_age"
  /\ Elapsed = 200000
  /\ ageText = "2 days ago (2023-11-12)"

\* C9 as stated: a timestamp in the future gets the bucket its magnitude
\* matches.
C9_MagnitudeBucket ==
  (op = "epoch_to_age" /\ Elapsed < 0) =>
    ageText = BucketText(-Elapsed, epoch)

\* C9 amended: a timestamp in the future is not validated and always gets
\* "just now": the negative timedelta compares below one minute.
C9_FutureIsJustNow ==
  (op = "epoch_to_age" /\ Elapsed < 0) =>
    /\ age.days < 0
    /\ ageText = "just now"

C9_Witness ==
  /\ op = "epoch_to_age"
  /\ Elapsed = -90000
  /\ ageText = "just now"

\* C10: in the minutes and hours buckets the count taken from the
\* remainder-of-day seconds equals the count taken from the total elapsed
\* seconds.
C10_RemainderIsTotal ==
  (op = "epoch_to_age" /\ Elapsed >= 60 /\ Elapsed < 86400) =>
    /\ age.seconds = Elapsed
    /\ Elapsed < 3600 =>
         /\ age.seconds \div 60 = Elapsed \div 60
         /\ ageText = ToString(Elapsed \div 60) \o " minutes ago"
    /\ Elapsed >= 3600 =>
         /\ age.seconds \div 3600 = Elapsed \div 3600
         /\ ageText = ToString(Elapsed \div 3600) \o " hours ago"

C10_Witness ==
  /\ op = "epoch_to_age"
  /\ Elapsed = 86399
  /\ age.seconds = 86399
  /\ ageText = "23 hours ago"

----------------------------------------------------------------------------
(* Properties of the transformer *)

CountOf(s, lit) == Cardinality({i \in 1..Len(s) : HasAt(s, i, lit)})
Contains(s, lit) == \E i \in 1..Len(s) : HasAt(s, i, lit)
FirstAt(s, lit) == Min({i \in 1..Len(s) : HasAt(s, i, lit)} \cup {Len(s) + 1})

\* the opener between two blank lines, right before an indented User: line
OpenerBlock == <<NL, NL>> \o Opener \o <<NL, NL>> \o IndentedUser

\* a line that opens a User: turn, quoted or not
IsUserTurn(l) == HasAt(l, 1, UserLabel) \/ HasAt(l, 1, <<">", " ">> \o UserLabel)

\* a line of the role-line shape: one or more characters, then a colon
RoleShaped(l) == \E k \in 2..Len(l) : l[k] = ":"

\* a line of spaces only, or empty
IsBlank(l) == \A i \in 1..Len(l) : l[i] = " "

\* a line whose first text, after any spaces, is the User: label
IsUserLabelled(l) ==
  \E i \in 1..Len(l) : HasAt(l, i, UserLabel) /\ \A j \in 1..(i - 1) : l[j] = " "

\* a heading-style line: starts with '#' or a space, is not blank, has two
\* characters or more, and is not itself a User: line
IsHeading(l) ==
  /\ Len(l) >= 2
  /\ l[1] \in {"#", " "}
  /\ ~IsBlank(l)
  /\ ~IsUserLabelled(l)

\* line h is a heading, line k a User: turn, and only blank lines between
HeadingBefore(h, k) ==
  /\ h < k
  /\ IsHeading(lines[h])
  /\ IsUserTurn(lines[k])
  /\ \A i \in (h + 1)..(k - 1) : IsBlank(lines[i])

\* line k is the first User: turn
FirstUserTurn(k) == IsUserTurn(lines[k]) /\ \A i \in 1..(k - 1) : ~IsUserTurn(lines[i])

\* a heading's text: the line without its leading run of '#' and ' ', of
\* which the last character stays when the line is nothing else
RECURSIVE HeadingText(_)
HeadingText(l) ==
  IF Len(l) > 1 /\ l[1] \in {"#", " "} THEN HeadingText(Tail(l)) ELSE l

\* C3 as stated: a text with a User: turn gets exactly one opener, placed
\* between two blank lines right before the first indented User: line.
C3_SingleOpener ==
  (op = "transform" /\ ~strict /\ \E k \in 1..Len(lines) : IsUserTurn(lines[k])) =>
    /\ CountOf(result.out, Opener) = 1
    /\ FirstAt(result.out, OpenerBlock) + Len(OpenerBlock) - Len(IndentedUser)
         = FirstAt(result.out, IndentedUser)

\* C4 as stated: a second application inserts no further opener; an output
\* with one opener still has exactly one after it.
C4_Idempotent ==
  op = "transform_again" =>
    /\ CountOf(result.out, Opener) = CountOf(first, Opener)
    /\ CountOf(first, Opener) = 1 => CountOf(result.out, Opener) = 1

\* C5 as stated: strict, some line of the role-line shape and no User: turn
\* fails with NoDirectivePlacementFound.
C5_StrictNoUser ==
  ( /\ op = "transform" /\ strict
    /\ \E k \in 1..Len(lines) : RoleShaped(lines[k])
    /\ \A k \in 1..Len(lines) : ~IsUserLabelled(lines[k])
                                  /\ ~IsUserTurn(lines[k]) ) =>
    result.status = NoDirectivePlacementFound

\* C6: strict and no line of the role-line shape fails with NoMessageFound,
\* at the normalization step, with no output.
C6_StrictNoMessage ==
  ( /\ op = "transform" /\ strict
    /\ \A k \in 1..Len(lines) : ~RoleShaped(lines[k]) ) =>
    /\ result.status = NoMessageFound
    /\ result.stage = "normalize"
    /\ result.out = <<>>

C6_Witness ==
  /\ op = "transform" /\ strict
  /\ lines = <<PlainLine>>
  /\ result.status = NoMessageFound

\* C8 as stated: the heading before the first User: line is in the output
\* with its marker and indentation, followed by the opener.
C8_HeadingPreserved ==
  (op = "transform" /\ ~strict) =>
    \A h, k \in 1..Len(lines) :
      (HeadingBefore(h, k) /\ FirstUserTurn(k)) =>
        /\ Contains(result.out, Prefix \o lines[h] \o <<NL>>)
        /\ FirstAt(result.out, Prefix \o lines[h] \o <<NL>>)
             < FirstAt(result.out, Opener)

\* C8 amended: the opener goes after the heading and before the User: line,
\* and the heading keeps its text but loses its indentation and its leading
\* run of '#' and ' ': the line before the opener block is that text alone.
C8_HeadingTextKept ==
  (op = "transform" /\ ~strict) =>
    \A h, k \in 1..Len(lines) :
      HeadingBefore(h, k) =>
        \/ HasAt(result.out, 1, HeadingText(lines[h]) \o OpenerBlock) /\ h = 1
        \/ Contains(result.out, <<NL>> \o HeadingText(lines[h]) \o OpenerBlock)

C8_Witness ==
  /\ op = "transform" /\ ~strict
  /\ lines = <<HeadingLine, BlankLine, UserTurn>>
  /\ result.out = <<"H">> \o OpenerBlock \o <<" ", "a">>

====
